---- MODULE Spec2Model ----
(***************************************************************************)
(* Model of the trace ring buffer of src/src/ring_buffer.rs: RingBuffer    *)
(* (new, end, write, the three TraceSink operations) and RingBufferIter    *)
(* (iter, next).  Storage bytes, offsets and the 13-byte entry layout are   *)
(* modelled as in the source; the history variables (appended, yielded,    *)
(* lastFull, requested) record what was asked of the buffer so that the    *)
(* properties can be stated.                                               *)
(***************************************************************************)
EXTENDS Integers, Sequences, FiniteSets, TLC

\* ----- bounds of the model -----
MaxCapacity == 27
MaxAppends == 3
MaxDirectIds == 1

\* ----- program constants -----
\* mem::size_of::<TraceEntry<T>>() (8 + 4 + 1, packed)
EntrySize == 13
\* first reading of the clock; chosen so that timestamps cross a byte boundary
ClockStart == 255

\* TraceKind, #[repr(u8)]
Kinds == {"Event", "Start", "Stop"}

\* tags returned by Trace::tag() (u32); one of them needs two bytes
Tags == {1, 770}

\* the three-entry capacities: a multiple of the entry size, and the
\* 3 * size() + 1 of tests::with_roll_over_and_does_not_divide_evenly
TestCapacities == {3 * EntrySize, 3 * EntrySize + 1}

\* capacities handed to RingBuffer::new
Capacities == (0..MaxCapacity) \cup TestCapacities

\* ----- entry codec: mem::transmute between TraceEntry and [u8; 13] -----
\* variant: the discriminants of Start and Stop exchanged
KindByteSwapped(kind) ==
    CASE kind = "Event" -> 0
      [] kind = "Start" -> 2
      [] kind = "Stop" -> 1

\* variant: the discriminants start at 1
KindByteFromOne(kind) ==
    CASE kind = "Event" -> 1
      [] kind = "Start" -> 2
      [] kind = "Stop" -> 3

KindByte(kind) ==
    CASE kind = "Event" -> 0
      [] kind = "Start" -> 1
      [] kind = "Stop" -> 2

\* Unsigned integers wider than the model's integers are kept as limbs of
\* 24 bits, least significant first: a u64 has three limbs, a u32 two.
LimbBase == 256 * 256 * 256

U64(x) == <<x % LimbBase, x \div LimbBase, 0>>

U32(x) == <<x % LimbBase, x \div LimbBase>>

\* the i-th byte (from 0) of the integer x in little-endian order
RECURSIVE ByteAt(_, _)
ByteAt(x, i) == IF i = 0 THEN x % 256 ELSE ByteAt(x \div 256, i - 1)

\* the i-th byte (from 0) of the limbs v in little-endian order
LimbByte(v, i) == ByteAt(v[(i \div 3) + 1], i % 3)

\* the value of the n <= 3 bytes of s starting at position lo (from 1)
RECURSIVE LEValue(_, _, _)
LEValue(s, lo, n) == IF n = 0 THEN 0 ELSE s[lo] + 256 * LEValue(s, lo + 1, n - 1)

\* the limbs of the n-byte little-endian integer of s starting at position lo
Limbs(s, lo, n) ==
    [k \in 1..((n + 2) \div 3) |->
        LEValue(s, lo + 3 * (k - 1), IF n - 3 * (k - 1) < 3 THEN n - 3 * (k - 1) ELSE 3)]

\* variant: the tag is stored most significant byte first
TransmuteTagBigEndian(entry) ==
    [i \in 1..EntrySize |->
        IF i <= 8 THEN LimbByte(entry.timestamp, i - 1)
        ELSE IF i <= 12 THEN LimbByte(entry.tag, 12 - i)
        ELSE KindByte(entry.kind)]

\* TraceEntry -> [u8; 13]: timestamp (8), tag (4), kind (1), no padding
Transmute(entry) ==
    [i \in 1..EntrySize |->
        IF i <= 8 THEN LimbByte(entry.timestamp, i - 1)
        ELSE IF i <= 12 THEN LimbByte(entry.tag, i - 9)
        ELSE KindByte(entry.kind)]

\* [u8; 13] -> TraceEntry.  A kind byte outside 0..2 has no TraceKind: the
\* read is undefined, recorded as kind "Undefined".
TransmuteBack(bytes) ==
    [timestamp |-> Limbs(bytes, 1, 8),
     tag |-> Limbs(bytes, 9, 4),
     kind |-> CASE bytes[13] = 0 -> "Event"
                [] bytes[13] = 1 -> "Start"
                [] bytes[13] = 2 -> "Stop"
                [] OTHER -> "Undefined"]

\* ----- byte storage: Vec<u8> as a function on 0..len-1 -----
Cap(d) == Cardinality(DOMAIN d)

NoData == [i \in {} |-> 0]

\* dst[a..b].copy_from_slice(src): panics when the range is out of bounds or
\* the lengths differ
CopyFromSlice(d, a, b, src) ==
    IF a <= b /\ b <= Cap(d) /\ Len(src) = b - a
    THEN [ok |-> TRUE, data |-> [i \in DOMAIN d |-> IF a <= i /\ i < b THEN src[i - a + 1] ELSE d[i]]]
    ELSE [ok |-> FALSE, data |-> d]

\* src[a..b] of a byte sequence (positions from 0), as a sequence
Slice(d, a, b) == [i \in 1..(b - a) |-> d[a + i - 1]]

VARIABLES pc, data, begin, length, clock, iterState, requested, appended, yielded, done, lastFull

\* the `why` argument of the most recent sink call
VARIABLES lastWhy

\* state of the threads that share a buffer behind a Mutex, of the identifier
\* generators, and of the entry codec exercised on its own
VARIABLES lock, threads, ids, minted, codec

vars == <<pc, data, begin, length, clock, iterState, requested, appended, yielded, done, lastFull,
          lastWhy, lock, threads, ids, minted, codec>>

\* what the single-threaded buffer operations do not touch
otherVars == <<lock, threads, ids, minted, codec>>

\* the threads of the process
Threads == {1, 2}

\* Option<T::Id> values passed as `why`: None or Some(id)
Whys == {<<>>, <<1>>}

IdleThread == [pc |-> "idle", op |-> "none", tag |-> 0, end |-> 0, src |-> <<>>]

NoIds == [global |-> 0, local |-> [t \in Threads |-> 0]]

IdleCodec == [pc |-> "idle", entry |-> <<>>, bytes |-> <<>>, decoded |-> <<>>, encoded |-> <<>>]

bufVars == <<data, begin, length>>

NoIter == [state |-> "None"]
EmptyIter == [state |-> "Empty"]
NonEmptyIter(idx) == [state |-> "NonEmpty", idx |-> idx]

\* variant: the capacity check accepts a capacity equal to the entry size
newAtLeast(capacity) ==
    IF capacity >= EntrySize
    THEN [ok |-> TRUE, data |-> [i \in 0..(capacity - 1) |-> 0], begin |-> 0, length |-> 0]
    ELSE [ok |-> FALSE, data |-> NoData, begin |-> 0, length |-> 0]

\* RingBuffer::new
new(capacity) ==
    IF capacity > EntrySize
    THEN [ok |-> TRUE, data |-> [i \in 0..(capacity - 1) |-> 0], begin |-> 0, length |-> 0]
    ELSE [ok |-> FALSE, data |-> NoData, begin |-> 0, length |-> 0]

\* variant: the end offset is not reduced modulo the capacity
endNoModulo(d, b, l) == b + l

\* RingBuffer::end
end(d, b, l) == (b + l) % Cap(d)

\* variant: evict so as to keep a second entry's worth of room
ShouldEvictTwoFree(capacity, l) == capacity - l < 2 * EntrySize

\* variant: the eviction is left out
ShouldEvictNever(capacity, l) == FALSE

\* variant: evict only when no byte at all is free
ShouldEvictWhenFull(capacity, l) == capacity - l <= 0

\* variant: evict also when exactly one entry still fits
ShouldEvictAtEqual(capacity, l) == capacity - l <= EntrySize

\* the eviction test of write: capacity - self.length < size()
ShouldEvict(capacity, l) == capacity - l < EntrySize

\* variant: the eviction forgets to advance begin
EvictBeginStays(b, capacity) == b

\* variant: the eviction advances begin by one byte too few
EvictBeginOffByOne(b, capacity) == (b + EntrySize - 1) % capacity

\* the eviction of write: self.begin = (self.begin + size()) % capacity
EvictBegin(b, capacity) == (b + EntrySize) % capacity

\* the wraparound test of write: end + new_data_len > capacity
SplitWrite(e, new_data_len, capacity) == e + new_data_len > capacity

\* RingBuffer::write; ok is FALSE when the call panics (usize underflow,
\* slice index out of range, slice length mismatch, debug assertion)
write(d, b, l, src) ==
    LET e == end(d, b, l)
        new_data_len == Len(src)
        capacity == Cap(d)
        evict == ShouldEvict(capacity, l)
        underflow == l > capacity \/ (evict /\ l < EntrySize)
        b1 == IF evict THEN EvictBegin(b, capacity) ELSE b
        l1 == IF evict THEN l - EntrySize ELSE l
        split == SplitWrite(e, new_data_len, capacity)
        middle == capacity - e
        first == IF split
                 THEN IF middle >= 0 /\ middle <= new_data_len
                      THEN CopyFromSlice(d, e, capacity, SubSeq(src, 1, middle))
                      ELSE [ok |-> FALSE, data |-> d]
                 ELSE CopyFromSlice(d, e, e + new_data_len, src)
        second == IF split /\ first.ok
                  THEN CopyFromSlice(first.data, 0, new_data_len - middle,
                                     SubSeq(src, middle + 1, new_data_len))
                  ELSE first
        l2 == l1 + EntrySize
    IN  [ok |-> ~underflow /\ second.ok /\ l2 <= capacity,
         data |-> second.data, begin |-> b1, length |-> l2]

\* variant: begin = end is taken to mean an empty buffer
iterEmptyWhenBeginIsEnd(d, b, l) == IF b = end(d, b, l) THEN EmptyIter ELSE NonEmptyIter(b)

\* variant: the cursor starts at offset 0 instead of begin
iterFromZero(d, b, l) == IF l = 0 THEN EmptyIter ELSE NonEmptyIter(0)

\* RingBuffer::iter
iter(d, b, l) == IF l = 0 THEN EmptyIter ELSE NonEmptyIter(b)

\* variant: the two parts of a wrapped entry are put together in the wrong order
ReadEntryBytesSwapped(d, idx) ==
    IF idx + EntrySize > Cap(d)
    THEN LET middle == Cap(d) - idx
         IN  Slice(d, 0, EntrySize - middle) \o Slice(d, idx, Cap(d))
    ELSE Slice(d, idx, idx + EntrySize)

\* the 13 bytes RingBufferIter::next reads for the entry at idx
ReadEntryBytes(d, idx) ==
    IF idx + EntrySize > Cap(d)
    THEN LET middle == Cap(d) - idx
         IN  Slice(d, idx, Cap(d)) \o Slice(d, 0, EntrySize - middle)
    ELSE Slice(d, idx, idx + EntrySize)

\* variant: the end test looks at the cursor before it is advanced
nextStopsLate(st, d, b, l) ==
    IF st.state = "Empty"
    THEN [state |-> st, result |-> <<>>]
    ELSE LET idx == st.idx
             result == TransmuteBack(ReadEntryBytes(d, idx))
             next_idx == (idx + EntrySize) % Cap(d)
         IN  [state |-> IF idx = end(d, b, l) THEN EmptyIter ELSE NonEmptyIter(next_idx),
              result |-> <<result>>]

\* RingBufferIter::next: the next iterator state and the returned Option
next(st, d, b, l) ==
    IF st.state = "Empty"
    THEN [state |-> st, result |-> <<>>]
    ELSE LET idx == st.idx
             result == TransmuteBack(ReadEntryBytes(d, idx))
             next_idx == (idx + EntrySize) % Cap(d)
         IN  [state |-> IF next_idx = end(d, b, l) THEN EmptyIter ELSE NonEmptyIter(next_idx),
              result |-> <<result>>]

Init ==
    /\ pc = "start"
    /\ data = NoData
    /\ begin = 0
    /\ length = 0
    /\ clock = ClockStart
    /\ iterState = NoIter
    /\ requested = -1
    /\ appended = <<>>
    /\ yielded = <<>>
    /\ done = FALSE
    /\ lastFull = <<>>
    /\ lastWhy = <<>>
    /\ lock = 0
    /\ threads = [t \in Threads |-> IdleThread]
    /\ ids = NoIds
    /\ minted = <<>>
    /\ codec = IdleCodec

\* let buffer = RingBuffer::new(capacity)
New(capacity) ==
    /\ pc = "start"
    /\ LET r == new(capacity)
       IN  /\ pc' = IF r.ok THEN "live" ELSE "panicked"
           /\ data' = r.data
           /\ begin' = r.begin
           /\ length' = r.length
    /\ requested' = capacity
    /\ UNCHANGED <<clock, iterState, appended, yielded, done, lastFull, lastWhy>>
    /\ UNCHANGED otherVars

\* variant: the causal parent is persisted, in the tag field of the entry
EntryForKeepingWhy(now, tag, why, kind) ==
    [timestamp |-> U64(now), tag |-> U32(IF why = <<>> THEN tag ELSE why[1]), kind |-> kind]

\* the TraceEntry literal of the sink operations; _why is not used
EntryFor(now, tag, why, kind) ==
    [timestamp |-> U64(now), tag |-> U32(tag), kind |-> kind]

\* the common body of trace_event / trace_start / trace_stop: read the clock,
\* build the entry of the given kind, transmute it, write it.  op names the
\* sink operation that was called; the history records the call.
TraceWrite(op, tag, why, kind) ==
    /\ pc = "live"
    /\ iterState = NoIter
    /\ Len(appended) < MaxAppends
    /\ LET entry == EntryFor(clock, tag, why, kind)
           r == write(data, begin, length, Transmute(entry))
       IN  /\ pc' = IF r.ok THEN "live" ELSE "panicked"
           /\ data' = r.data
           /\ begin' = r.begin
           /\ length' = r.length
    /\ appended' = Append(appended, [op |-> op, timestamp |-> clock, tag |-> tag])
    /\ clock' = clock + 1
    /\ lastFull' = <<>>
    /\ lastWhy' = why
    /\ UNCHANGED <<iterState, requested, yielded, done>>
    /\ UNCHANGED otherVars

trace_event(tag, why) == TraceWrite("trace_event", tag, why, "Event")

trace_start(tag, why) == TraceWrite("trace_start", tag, why, "Start")

\* variant: the body of trace_start copied without changing the kind
trace_stopAsStart(tag) == TraceWrite("trace_stop", tag, <<>>, "Start")

trace_stop(tag) == TraceWrite("trace_stop", tag, <<>>, "Stop")

\* let mut iter = buffer.iter()
Iter ==
    /\ pc = "live"
    /\ iterState = NoIter
    /\ iterState' = iter(data, begin, length)
    /\ yielded' = <<>>
    /\ done' = FALSE
    /\ UNCHANGED <<pc, data, begin, length, clock, requested, appended, lastFull, lastWhy>>
    /\ UNCHANGED otherVars

\* variant: a draining iterator, which removes the entry it returns
IterNextDraining ==
    /\ pc = "live"
    /\ iterState # NoIter
    /\ ~done
    /\ LET r == next(iterState, data, begin, length)
       IN  /\ iterState' = r.state
           /\ yielded' = yielded \o r.result
           /\ done' = (r.result = <<>>)
           /\ begin' = IF r.result = <<>> THEN begin ELSE (begin + EntrySize) % Cap(data)
           /\ length' = IF r.result = <<>> THEN length ELSE length - EntrySize
    /\ UNCHANGED <<pc, data, clock, requested, appended, lastFull, lastWhy>>
    /\ UNCHANGED otherVars

\* iter.next()
IterNext ==
    /\ pc = "live"
    /\ iterState # NoIter
    /\ ~done
    /\ LET r == next(iterState, data, begin, length)
       IN  /\ iterState' = r.state
           /\ yielded' = yielded \o r.result
           /\ done' = (r.result = <<>>)
    /\ UNCHANGED <<pc, data, begin, length, clock, requested, appended, lastFull, lastWhy>>
    /\ UNCHANGED otherVars

\* the iterator goes out of scope, which ends the borrow of the buffer
DropIter ==
    /\ pc = "live"
    /\ iterState # NoIter
    /\ iterState' = NoIter
    /\ lastFull' = IF done THEN <<yielded>> ELSE lastFull
    /\ yielded' = <<>>
    /\ done' = FALSE
    /\ UNCHANGED <<pc, data, begin, length, clock, requested, appended, lastWhy>>
    /\ UNCHANGED otherVars

Next ==
    \/ \E capacity \in Capacities : New(capacity)
    \/ \E tag \in Tags : \E why \in Whys : trace_event(tag, why)
    \/ \E tag \in Tags : \E why \in Whys : trace_start(tag, why)
    \/ \E tag \in Tags : trace_stop(tag)
    \/ Iter
    \/ IterNext
    \/ DropIter

Spec == Init /\ [][Next]_vars

\* ----- a complete iteration: buffer.iter() stepped until next() is None -----
\* The marker entry is appended when the iterator has not finished after
\* fuel steps.
NoEnd == [timestamp |-> U64(0), tag |-> U32(0), kind |-> "NoEnd"]

RECURSIVE Drain(_, _, _, _, _)
Drain(st, d, b, l, fuel) ==
    LET r == next(st, d, b, l)
    IN  IF r.result = <<>> THEN <<>>
        ELSE IF fuel = 0 THEN <<NoEnd>>
        ELSE r.result \o Drain(r.state, d, b, l, fuel - 1)

IterAll == Drain(iter(data, begin, length), data, begin, length, Cap(data))

\* ----- threads sharing one buffer behind a Mutex -----
\* capacities of the shared buffer: one entry with wraparound, two entries
\* exactly, two entries and a spare byte
ThreadCapacities == {EntrySize + 1, 2 * EntrySize, 2 * EntrySize + 1}

\* the first half of RingBuffer::write: end is taken, then the oldest entry
\* is evicted when fewer than 13 bytes are free
writeBegin(d, b, l) ==
    LET e == end(d, b, l)
        capacity == Cap(d)
        evict == ShouldEvict(capacity, l)
    IN  [ok |-> ~(l > capacity \/ (evict /\ l < EntrySize)),
         end |-> e,
         begin |-> IF evict THEN EvictBegin(b, capacity) ELSE b,
         length |-> IF evict THEN l - EntrySize ELSE l]

\* the second half of RingBuffer::write: the bytes are copied to end, split
\* at the end of the storage, and length grows by 13
writeFinish(d, e, l, src) ==
    LET new_data_len == Len(src)
        capacity == Cap(d)
        split == SplitWrite(e, new_data_len, capacity)
        middle == capacity - e
        first == IF split
                 THEN IF middle >= 0 /\ middle <= new_data_len
                      THEN CopyFromSlice(d, e, capacity, SubSeq(src, 1, middle))
                      ELSE [ok |-> FALSE, data |-> d]
                 ELSE CopyFromSlice(d, e, e + new_data_len, src)
        second == IF split /\ first.ok
                  THEN CopyFromSlice(first.data, 0, new_data_len - middle,
                                     SubSeq(src, middle + 1, new_data_len))
                  ELSE first
        l2 == l + EntrySize
    IN  [ok |-> second.ok /\ l2 <= capacity, data |-> second.data, length |-> l2]

\* variant: every sink operation returns an identifier
ReturnsIdAlways(op) == TRUE

\* trace_event and trace_start return T::Id::new_id(); trace_stop returns ()
ReturnsId(op) == op \in {"trace_event", "trace_start"}

\* global-counter generator: one process-wide counter, read and incremented
\* in one atomic step
GlobalNewId(counter) == [id |-> counter, counter |-> counter + 1]

\* thread-qualified generator: the thread's identity with the thread's own
\* counter, which only that thread increments
ThreadNewId(t, counter) == [id |-> <<t, counter>>, counter |-> counter + 1]

\* T::Id::new_id() called by thread t for operation op: the identifier of
\* either strategy is minted and recorded
Mint(t, op) ==
    LET g == GlobalNewId(ids.global)
        q == ThreadNewId(t, ids.local[t])
    IN  /\ ids' = [global |-> g.counter, local |-> [ids.local EXCEPT ![t] = q.counter]]
        /\ minted' = Append(minted, [thread |-> t, op |-> op, global |-> g.id, local |-> q.id])

\* a buffer of one of the capacities, shared by the threads
ThreadInit ==
    /\ \E capacity \in ThreadCapacities :
          /\ requested = capacity
          /\ data = new(capacity).data
          /\ begin = new(capacity).begin
          /\ length = new(capacity).length
    /\ pc = "live"
    /\ clock = ClockStart
    /\ iterState = NoIter
    /\ appended = <<>>
    /\ yielded = <<>>
    /\ done = FALSE
    /\ lastFull = <<>>
    /\ lastWhy = <<>>
    /\ lock = 0
    /\ threads = [t \in Threads |-> IdleThread]
    /\ ids = NoIds
    /\ minted = <<>>
    /\ codec = IdleCodec

\* variant: the buffer is used without waiting for the lock
T_lockNoExclusion(t) ==
    /\ pc = "live"
    /\ threads[t].pc = "idle"
    /\ lock' = t
    /\ threads' = [threads EXCEPT ![t].pc = "locked"]
    /\ UNCHANGED <<pc, data, begin, length, clock, iterState, requested, appended, yielded, done,
                   lastFull, lastWhy, ids, minted, codec>>

\* let mut buffer = buffer.lock().unwrap()
T_lock(t) ==
    /\ pc = "live"
    /\ threads[t].pc = "idle"
    /\ lock = 0
    /\ lock' = t
    /\ threads' = [threads EXCEPT ![t].pc = "locked"]
    /\ UNCHANGED <<pc, data, begin, length, clock, iterState, requested, appended, yielded, done,
                   lastFull, lastWhy, ids, minted, codec>>

\* a sink operation called through the guard, up to the eviction of write:
\* the clock is read, the entry built and transmuted, end taken
T_call(t, op, tag, kind) ==
    /\ pc = "live"
    /\ threads[t].pc = "locked"
    /\ Len(appended) < MaxAppends
    /\ LET r == writeBegin(data, begin, length)
       IN  /\ pc' = IF r.ok THEN "live" ELSE "panicked"
           /\ begin' = r.begin
           /\ length' = r.length
           /\ threads' = [threads EXCEPT ![t] =
                  [pc |-> "copy", op |-> op, tag |-> tag, end |-> r.end,
                   src |-> Transmute(EntryFor(clock, tag, <<>>, kind))]]
    /\ appended' = Append(appended, [op |-> op, timestamp |-> clock, tag |-> tag])
    /\ clock' = clock + 1
    /\ yielded' = <<>>
    /\ done' = FALSE
    /\ UNCHANGED <<data, iterState, requested, lastFull, lastWhy, lock, ids, minted, codec>>

\* each thread traces a tag of its own
ThreadTag(t) == t

T_trace_event(t) == T_call(t, "trace_event", ThreadTag(t), "Event")

T_trace_start(t) == T_call(t, "trace_start", ThreadTag(t), "Start")

T_trace_stop(t) == T_call(t, "trace_stop", ThreadTag(t), "Stop")

\* the rest of write: the copy into the storage and length += size()
T_copy(t) ==
    /\ pc = "live"
    /\ threads[t].pc = "copy"
    /\ LET r == writeFinish(data, threads[t].end, length, threads[t].src)
       IN  /\ pc' = IF r.ok THEN "live" ELSE "panicked"
           /\ data' = r.data
           /\ length' = r.length
    /\ threads' = [threads EXCEPT ![t].pc = IF ReturnsId(threads[t].op) THEN "mint" ELSE "unlock"]
    /\ UNCHANGED <<begin, clock, iterState, requested, appended, yielded, done, lastFull, lastWhy,
                   lock, ids, minted, codec>>

\* T::Id::new_id() at the end of trace_event / trace_start
T_new_id(t) ==
    /\ pc = "live"
    /\ threads[t].pc = "mint"
    /\ Mint(t, threads[t].op)
    /\ threads' = [threads EXCEPT ![t].pc = "unlock"]
    /\ UNCHANGED <<pc, data, begin, length, clock, iterState, requested, appended, yielded, done,
                   lastFull, lastWhy, lock, codec>>

\* new_id() called on its own, without the buffer
T_direct_new_id(t) ==
    /\ pc = "live"
    /\ threads[t].pc = "idle"
    /\ Cardinality({i \in 1..Len(minted) : minted[i].op = "new_id"}) < MaxDirectIds
    /\ Mint(t, "new_id")
    /\ UNCHANGED <<pc, data, begin, length, clock, iterState, requested, appended, yielded, done,
                   lastFull, lastWhy, lock, threads, codec>>

\* buffer.iter() stepped to the end while the guard is held
T_iter(t) ==
    /\ pc = "live"
    /\ threads[t].pc = "locked"
    /\ ~done
    /\ yielded' = Drain(iter(data, begin, length), data, begin, length, Cap(data))
    /\ done' = TRUE
    /\ threads' = [threads EXCEPT ![t].pc = "unlock"]
    /\ UNCHANGED <<pc, data, begin, length, clock, iterState, requested, appended, lastFull,
                   lastWhy, lock, ids, minted, codec>>

\* the guard is dropped
T_unlock(t) ==
    /\ pc = "live"
    /\ threads[t].pc \in {"locked", "unlock"}
    /\ lock' = 0
    /\ threads' = [threads EXCEPT ![t].pc = "idle"]
    /\ UNCHANGED <<pc, data, begin, length, clock, iterState, requested, appended, yielded, done,
                   lastFull, lastWhy, ids, minted, codec>>

ThreadNext ==
    \/ \E t \in Threads : T_lock(t)
    \/ \E t \in Threads : T_trace_event(t)
    \/ \E t \in Threads : T_trace_start(t)
    \/ \E t \in Threads : T_trace_stop(t)
    \/ \E t \in Threads : T_copy(t)
    \/ \E t \in Threads : T_new_id(t)
    \/ \E t \in Threads : T_direct_new_id(t)
    \/ \E t \in Threads : T_iter(t)
    \/ \E t \in Threads : T_unlock(t)

ThreadSpec == ThreadInit /\ [][ThreadNext]_vars

\* ----- the entry codec on its own -----
\* entries handed to the encoder: timestamps and tags over the whole width of
\* their fields, every kind
CodecEntries ==
    [timestamp : {0, 255, LimbBase - 1} \X {0, 255, LimbBase - 1} \X {0, 256 * 256 - 1},
     tag : {1, 770, LimbBase - 1} \X {0, 255},
     kind : Kinds]

\* 13-byte records handed to the decoder: any bytes, a valid kind byte last
CodecRecords ==
    {r \o <<k>> : r \in [1..(EntrySize - 1) -> {0, 255}], k \in {0, 1, 2}}

\* let bytes: [u8; 13] = mem::transmute(entry)
CodecEncode(entry) ==
    /\ codec.pc = "idle"
    /\ codec' = [codec EXCEPT !.pc = "encoded", !.entry = <<entry>>, !.bytes = <<Transmute(entry)>>]
    /\ UNCHANGED <<pc, data, begin, length, clock, iterState, requested, appended, yielded, done,
                   lastFull, lastWhy, lock, threads, ids, minted>>

\* a 13-byte record as it is found in the storage
CodecLoad(bytes) ==
    /\ codec.pc = "idle"
    /\ codec' = [codec EXCEPT !.pc = "loaded", !.bytes = <<bytes>>]
    /\ UNCHANGED <<pc, data, begin, length, clock, iterState, requested, appended, yielded, done,
                   lastFull, lastWhy, lock, threads, ids, minted>>

\* let entry: TraceEntry = mem::transmute(bytes)
CodecDecode ==
    /\ codec.pc \in {"encoded", "loaded"}
    /\ codec' = [codec EXCEPT !.pc = IF codec.pc = "encoded" THEN "entry_done" ELSE "decoded",
                              !.decoded = <<TransmuteBack(codec.bytes[1])>>]
    /\ UNCHANGED <<pc, data, begin, length, clock, iterState, requested, appended, yielded, done,
                   lastFull, lastWhy, lock, threads, ids, minted>>

\* the decoded entry transmuted to bytes again
CodecReencode ==
    /\ codec.pc = "decoded"
    /\ codec' = [codec EXCEPT !.pc = "bytes_done", !.encoded = <<Transmute(codec.decoded[1])>>]
    /\ UNCHANGED <<pc, data, begin, length, clock, iterState, requested, appended, yielded, done,
                   lastFull, lastWhy, lock, threads, ids, minted>>

CodecNext ==
    \/ \E entry \in CodecEntries : CodecEncode(entry)
    \/ \E bytes \in CodecRecords : CodecLoad(bytes)
    \/ CodecDecode
    \/ CodecReencode

CodecSpec == Init /\ [][CodecNext]_vars

\* ----- what the history says the buffer should hold -----
\* the kind each sink operation stands for
KindOfOp(op) ==
    CASE op = "trace_event" -> "Event"
      [] op = "trace_start" -> "Start"
      [] op = "trace_stop" -> "Stop"

\* the entry the i-th append stands for
Appended(i) ==
    [timestamp |-> U64(appended[i].timestamp), tag |-> U32(appended[i].tag),
     kind |-> KindOfOp(appended[i].op)]

NumAppended == Len(appended)

\* number of whole entries the storage can hold
Slots == Cap(data) \div EntrySize

\* number of appends that have been dropped
Dropped == IF NumAppended > Slots THEN NumAppended - Slots ELSE 0

\* the entries still stored, oldest first
Survivors == [i \in 1..(NumAppended - Dropped) |-> Appended(Dropped + i)]

\* the storage offset of the k-th stored entry (k from 0)
EntryOffset(k) == (begin + EntrySize * k) % Cap(data)

\* ys agrees with xs in length and in the tag and kind of every entry
SameTagsAndKinds(ys, xs) ==
    /\ Len(ys) = Len(xs)
    /\ \A i \in 1..Len(xs) : ys[i].tag = xs[i].tag /\ ys[i].kind = xs[i].kind

\* C1: while the appended entries fit (13 * n <= C), a complete iteration
\* yields exactly the n appended entries in append order, the i-th with the
\* tag and kind of the i-th append.
C1_NoRollOver ==
    (pc = "live" /\ EntrySize * NumAppended <= Cap(data)) =>
        LET all == IterAll
            expected == [i \in 1..NumAppended |-> Appended(i)]
        IN  /\ Len(all) = NumAppended
            /\ SameTagsAndKinds(all, expected)
            /\ done => SameTagsAndKinds(yielded, expected)

C1_Witness ==
    /\ pc = "live" /\ done
    /\ NumAppended = 3 /\ EntrySize * NumAppended <= Cap(data)
    /\ Len(yielded) = 3
    /\ {appended[i].op : i \in 1..3} = {"trace_event", "trace_start", "trace_stop"}
    /\ appended[1].tag # appended[2].tag

\* C2: once more entries were appended than fit (13 * n > C), a complete
\* iteration yields exactly the last floor(C / 13) appended entries, oldest
\* survivor first, and none of the earlier entries.
C2_RollOver ==
    (pc = "live" /\ EntrySize * NumAppended > Cap(data)) =>
        LET all == IterAll
            last == [i \in 1..Slots |-> Appended(NumAppended - Slots + i)]
        IN  /\ Len(all) = Slots
            /\ all = last
            /\ \A i \in 1..Len(all) : \A j \in 1..(NumAppended - Slots) : all[i] # Appended(j)
            /\ done => yielded = last

C2_Witness ==
    /\ pc = "live" /\ done
    /\ Slots = 2 /\ NumAppended = 3
    /\ Len(yielded) = 2
    /\ yielded[1] = Appended(2)

\* C3: with a capacity that is not a multiple of 13, every stored entry is
\* read back as exactly the 13 bytes that were appended for it, also when it
\* is stored split across the end of the storage.
C3_SplitEntriesIntact ==
    (pc = "live" /\ Cap(data) % EntrySize # 0) =>
        /\ \A k \in 0..(Len(Survivors) - 1) :
              ReadEntryBytes(data, EntryOffset(k)) = Transmute(Survivors[k + 1])
        /\ done => /\ Len(yielded) = Len(Survivors)
                   /\ \A i \in 1..Len(Survivors) : Transmute(yielded[i]) = Transmute(Survivors[i])

C3_Witness ==
    /\ pc = "live" /\ done
    /\ Cap(data) % EntrySize # 0
    /\ Dropped > 0
    /\ \E k \in 0..(Len(Survivors) - 1) :
          /\ EntryOffset(k) + EntrySize > Cap(data)
          /\ yielded[k + 1] = Survivors[k + 1]

\* C4: length stays between 0 and the capacity and is a multiple of 13, and
\* the debug assertion at the end of write never fails.
C4_LengthInvariant ==
    requested > EntrySize =>
        /\ pc = "live"
        /\ 0 <= length /\ length <= Cap(data)
        /\ length % EntrySize = 0

C4_Witness ==
    /\ pc = "live"
    /\ Dropped > 0
    /\ length = Cap(data)

\* C5: an iterator produces exactly length / 13 entries, oldest first, and
\* then ends: none for a fresh buffer, all C / 13 for a completely full one.
C5_IterLength ==
    pc = "live" =>
        LET all == IterAll
        IN  /\ Len(all) = length \div EntrySize
            /\ all = Survivors
            /\ iterState # NoIter =>
                  /\ Len(yielded) <= length \div EntrySize
                  /\ yielded = SubSeq(all, 1, Len(yielded))
                  /\ (iterState = EmptyIter) = (Len(yielded) = length \div EntrySize)
                  /\ done => iterState = EmptyIter

C5_Witness ==
    /\ pc = "live" /\ done
    /\ length = Cap(data)
    /\ begin = end(data, begin, length)
    /\ begin # 0
    /\ Len(yielded) = Slots /\ Slots >= 2

\* C6: creating an iterator and stepping it to the end leaves data, begin and
\* length as they were, and a second complete iteration with no append in
\* between yields the same entries as the first.
C6_IterReadOnly ==
    /\ [](done /\ lastFull # <<>> => yielded = lastFull[1])
    /\ [][(iterState' # iterState \/ yielded' # yielded \/ done' # done)
            => UNCHANGED <<data, begin, length>>]_vars

C6_Witness ==
    /\ pc = "live" /\ done
    /\ lastFull # <<>>
    /\ Len(yielded) >= 2
    /\ Dropped > 0

\* C7: an append never fails: the eviction never underflows length, every
\* slice index is within the storage, and the two halves of a split write have
\* the lengths of their destinations.
C7_AppendNeverFails ==
    requested > EntrySize =>
        /\ pc # "panicked"
        /\ ShouldEvict(Cap(data), length) => length >= EntrySize
        /\ LET e == end(data, begin, length)
               middle == Cap(data) - e
           IN  /\ 0 <= e /\ e <= Cap(data)
               /\ IF SplitWrite(e, EntrySize, Cap(data))
                  THEN 0 <= middle /\ middle <= EntrySize /\ EntrySize - middle <= Cap(data)
                  ELSE e + EntrySize <= Cap(data)
        /\ \A tag \in Tags : \A kind \in Kinds :
              write(data, begin, length,
                    Transmute([timestamp |-> U64(clock), tag |-> U32(tag), kind |-> kind])).ok

C7_Witness ==
    /\ pc = "live"
    /\ Dropped >= 2
    /\ \E k \in 0..(Len(Survivors) - 1) : EntryOffset(k) + EntrySize > Cap(data)
    /\ SplitWrite(end(data, begin, length), EntrySize, Cap(data))

\* C8: new fails for every capacity <= 13 and produces no buffer; for every
\* capacity > 13 it returns a buffer of that many zero bytes with begin = 0
\* and length = 0.
C8_NewChecksCapacity ==
    /\ (requested # -1 /\ requested <= EntrySize) => (pc = "panicked" /\ data = NoData)
    /\ requested > EntrySize =>
          /\ pc = "live"
          /\ DOMAIN data = 0..(requested - 1)
          /\ NumAppended = 0 => /\ begin = 0
                                /\ length = 0
                                /\ \A i \in DOMAIN data : data[i] = 0

C8_Witness ==
    /\ requested = EntrySize
    /\ pc = "panicked"

\* C9: a buffer of capacity 14 holds exactly one entry: after the first
\* append length is 13, every later append evicts the stored entry, and a
\* complete iteration yields just the most recently appended entry.
C9_CapacityFourteen ==
    /\ []((pc = "live" /\ Cap(data) = EntrySize + 1 /\ NumAppended > 0) =>
            /\ length = EntrySize
            /\ IterAll = <<Appended(NumAppended)>>
            /\ done => yielded = <<Appended(NumAppended)>>)
    /\ [][(Cap(data) = EntrySize + 1 /\ NumAppended > 0 /\ appended' # appended) =>
            /\ begin' = (begin + EntrySize) % (EntrySize + 1)
            /\ length' = EntrySize
            /\ pc' = "live"]_vars

C9_Witness ==
    /\ pc = "live" /\ done
    /\ Cap(data) = EntrySize + 1
    /\ NumAppended >= 3
    /\ begin + EntrySize > Cap(data)
    /\ yielded = <<Appended(NumAppended)>>

\* C10: an append evicts exactly when fewer than 13 bytes are free before it;
\* it then evicts one entry (begin advances by 13 modulo C, length drops by
\* 13), which leaves at least 13 bytes free, so the appended entry fits.
C10_EvictIffNoRoom ==
    [][appended' # appended =>
         LET free == Cap(data) - length
         IN  /\ (begin' # begin) = (free < EntrySize)
             /\ free < EntrySize =>
                   /\ length >= EntrySize
                   /\ begin' = (begin + EntrySize) % Cap(data)
                   /\ Cap(data) - (length - EntrySize) >= EntrySize
                   /\ length' = (length - EntrySize) + EntrySize
             /\ free >= EntrySize =>
                   /\ begin' = begin
                   /\ length' = length + EntrySize
             /\ pc' = "live"
             /\ length' <= Cap(data)]_vars

C10_Witness ==
    /\ pc = "live"
    /\ Dropped = 2
    /\ begin = (2 * EntrySize) % Cap(data)
    /\ length = Slots * EntrySize
    /\ Cap(data) > EntrySize + 1

\* the kind byte each sink operation stands for
KindByteOfOp(op) ==
    CASE op = "trace_event" -> 0
      [] op = "trace_start" -> 1
      [] op = "trace_stop" -> 2

\* C11: each sink operation appends exactly one entry, with the tag of the
\* call and the kind of the operation (trace_event 0, trace_start 1,
\* trace_stop 2); that entry is the last one a complete iteration yields.
C11_SinkAppendsOneEntry ==
    /\ []((pc = "live" /\ NumAppended > 0) =>
            LET all == IterAll
                newest == Appended(NumAppended)
            IN  /\ all # <<>>
                /\ length >= EntrySize
                /\ all[Len(all)].tag = newest.tag
                /\ all[Len(all)].kind = newest.kind
                /\ ReadEntryBytes(data, EntryOffset((length \div EntrySize) - 1))[EntrySize]
                      = KindByteOfOp(appended[NumAppended].op))
    /\ [][appended' # appended =>
            /\ Len(appended') = Len(appended) + 1
            /\ length' \div EntrySize =
                  IF (length \div EntrySize) + 1 <= Slots THEN (length \div EntrySize) + 1 ELSE Slots]_vars

C11_Witness ==
    /\ pc = "live" /\ done
    /\ Dropped > 0
    /\ appended[NumAppended].op = "trace_stop"
    /\ appended[NumAppended - 1].op = "trace_start"
    /\ yielded # <<>>
    /\ yielded[Len(yielded)] = Appended(NumAppended)

\* C12: encoding and decoding are inverse: decoding the 13 bytes of an entry
\* gives the entry back, and encoding the decoding of a 13-byte record with
\* kind byte 0, 1 or 2 gives the record back.
C12_RoundTrip ==
    /\ codec.pc = "entry_done" => codec.decoded = codec.entry
    /\ codec.pc = "bytes_done" => codec.encoded = codec.bytes

C12_Witness ==
    /\ codec.pc = "bytes_done"
    /\ codec.bytes[1][1] = 255
    /\ codec.bytes[1][8] = 255
    /\ codec.bytes[1][9] = 0
    /\ codec.bytes[1][12] = 255
    /\ codec.bytes[1][EntrySize] = 2
    /\ codec.decoded[1].kind = "Stop"

\* C13: the `why` argument has no influence on the buffer: an append from the
\* same state with the same clock reading leaves the same data, begin and
\* length for every value of `why`; two runs of the same appends that differ
\* only in `why` therefore pass through the same buffers, step by step.
C13_WhyIgnored ==
    [][appended' # appended =>
         LET call == appended'[Len(appended')]
         IN  \A why \in Whys :
                LET r == write(data, begin, length,
                               Transmute(EntryFor(call.timestamp, call.tag, why, KindOfOp(call.op))))
                IN  data' = r.data /\ begin' = r.begin /\ length' = r.length]_vars

C13_Witness ==
    /\ pc = "live"
    /\ lastWhy = <<1>>
    /\ NumAppended >= 2
    /\ Dropped > 0
    /\ appended[NumAppended].op = "trace_start"

\* C16: every entry of the valid region (13 bytes apart from begin, modulo
\* C) has a kind byte of 0, 1 or 2, so the iterator never decodes a kind that
\* is out of range.
C16_StoredKindsValid ==
    pc = "live" =>
        /\ \A k \in 0..((length \div EntrySize) - 1) :
              ReadEntryBytes(data, EntryOffset(k))[EntrySize] \in {0, 1, 2}
        /\ LET all == IterAll IN \A i \in 1..Len(all) : all[i].kind \in Kinds
        /\ \A i \in 1..Len(yielded) : yielded[i].kind \in Kinds

C16_Witness ==
    /\ pc = "live" /\ done
    /\ Dropped > 0
    /\ Len(yielded) = 2
    /\ yielded[1].kind = "Stop"
    /\ yielded[2].kind = "Event"
    /\ EntryOffset(1) + EntrySize > Cap(data)

\* the storage offsets of the n bytes that start at offset o, modulo c
Positions(o, n, c) == {(o + i) % c : i \in 0..(n - 1)}

\* the storage offsets whose byte differs between d and e
Changed(d, e) == {p \in DOMAIN d : d[p] # e[p]}

\* C17: an append never overwrites a byte of an entry that is still valid
\* after it: the 13 bytes written from end lie in free space or in the entry
\* this append evicts, and the bytes of the entries that stay are unchanged.
C17_NoValidByteOverwritten ==
    [][appended' # appended =>
         LET c == Cap(data)
             written == Positions((begin + length) % c, EntrySize, c)
             free == (0..(c - 1)) \ Positions(begin, length, c)
             evicted == IF begin' # begin THEN Positions(begin, EntrySize, c) ELSE {}
             kept == Positions(begin', length' - EntrySize, c)
         IN  /\ written \cap kept = {}
             /\ written \subseteq (free \cup evicted)
             /\ Changed(data, data') \subseteq (free \cup evicted)
             /\ \A p \in kept : data'[p] = data[p]]_vars

C17_Witness ==
    /\ pc = "live"
    /\ Cap(data) % EntrySize # 0
    /\ Slots = 2
    /\ Dropped = 1
    /\ ReadEntryBytes(data, EntryOffset(0)) = Transmute(Appended(2))
    /\ ReadEntryBytes(data, EntryOffset(1)) = Transmute(Appended(3))
    /\ EntryOffset(1) + EntrySize > Cap(data)

\* C18: an append changes only the 13 storage bytes from end (taken before
\* any eviction), modulo C, which then hold the appended entry; begin stays
\* when nothing is evicted; end advances by exactly 13 modulo C on every
\* append.
C18_AppendFrame ==
    [][appended' # appended =>
         LET c == Cap(data)
             e == (begin + length) % c
             call == appended'[Len(appended')]
             bytes == Transmute([timestamp |-> U64(call.timestamp), tag |-> U32(call.tag),
                                 kind |-> KindOfOp(call.op)])
         IN  /\ DOMAIN data' = DOMAIN data
             /\ Changed(data, data') \subseteq Positions(e, EntrySize, c)
             /\ \A i \in 0..(EntrySize - 1) : data'[(e + i) % c] = bytes[i + 1]
             /\ c - length >= EntrySize => begin' = begin
             /\ (begin' + length') % c = (e + EntrySize) % c]_vars

C18_Witness ==
    /\ pc = "live"
    /\ Slots = 1
    /\ Cap(data) % EntrySize > 1
    /\ Dropped = 2
    /\ end(data, begin, length) = (3 * EntrySize) % Cap(data)
    /\ Changed(data, [p \in DOMAIN data |-> 0]) # {}

\* C19: the length seen between operations never decreases: every append
\* adds 13 until 13 * floor(C / 13) is reached, after which the length stays
\* there; a buffer that has received an append is never empty again.
C19_LengthMonotone ==
    /\ [][length' >= length]_vars
    /\ [][appended' # appended =>
            length' = IF length + EntrySize <= EntrySize * Slots
                      THEN length + EntrySize ELSE EntrySize * Slots]_vars
    /\ [][(pc = "live" /\ length = EntrySize * Slots) => length' = length]_vars
    /\ [](NumAppended > 0 => length >= EntrySize)

C19_Witness ==
    /\ pc = "live"
    /\ Cap(data) = 2 * EntrySize
    /\ NumAppended = 3
    /\ length = 2 * EntrySize
    /\ begin = EntrySize

\* C20: the cursor of a live iterator is an offset of the storage and the
\* start of a stored entry that has not been yielded yet; the 13 bytes read
\* from it lie in the valid region, and when they wrap, between 1 and 12 of
\* them come before the end of the storage.
C20_CursorInValidRegion ==
    (pc = "live" /\ iterState.state = "NonEmpty") =>
        LET idx == iterState.idx
            c == Cap(data)
            k == Len(yielded)
        IN  /\ 0 <= idx /\ idx < c
            /\ k < length \div EntrySize
            /\ idx = (begin + EntrySize * k) % c
            /\ Positions(idx, EntrySize, c) \subseteq Positions(begin, length, c)
            /\ idx + EntrySize > c => (1 <= c - idx /\ c - idx <= EntrySize - 1)

C20_Witness ==
    /\ pc = "live"
    /\ iterState.state = "NonEmpty"
    /\ Len(yielded) = 1
    /\ Dropped > 0
    /\ iterState.idx + EntrySize > Cap(data)
    /\ Cap(data) - iterState.idx = 1

\* C14: when the threads append only while they hold the lock, every
\* interleaving keeps 0 <= length <= C and length mod 13 = 0, no append
\* fails, and an iteration under the lock yields the last min(n, floor(C/13))
\* appended entries in the order in which the lock was acquired.
C14_LockedAppends ==
    /\ pc = "live"
    /\ 0 <= length /\ length <= Cap(data)
    /\ length % EntrySize = 0
    /\ lock = 0 => IterAll = Survivors
    /\ done => yielded = Survivors

C14_Witness ==
    /\ done
    /\ Dropped > 0
    /\ Len(yielded) = 2
    /\ yielded[1].tag # yielded[2].tag
    /\ Cap(data) % EntrySize # 0
    /\ \E t \in Threads : threads[t].pc = "locked"

\* the minting calls: sink operations that return an identifier, and new_id
\* called on its own
MintedBy(ops) == {i \in 1..Len(minted) : minted[i].op \in ops}

\* C15: every trace_event and trace_start call returns one newly minted
\* identifier, different from every identifier minted before or concurrently
\* by the same generator (the global counter; the thread and its own
\* counter), and trace_stop mints none.
C15_FreshIds ==
    /\ \A i \in 1..Len(minted) : \A j \in 1..Len(minted) :
          i # j => /\ minted[i].global # minted[j].global
                   /\ minted[i].local # minted[j].local
    /\ \A i \in 1..Len(minted) : minted[i].local[1] = minted[i].thread
    /\ MintedBy({"trace_stop"}) = {}
    /\ Cardinality(MintedBy({"trace_event", "trace_start"}))
          + Cardinality({t \in Threads : /\ threads[t].pc \in {"copy", "mint"}
                                         /\ threads[t].op \in {"trace_event", "trace_start"}})
          = Cardinality({i \in 1..NumAppended : appended[i].op \in {"trace_event", "trace_start"}})

C15_Witness ==
    /\ Len(minted) = 3
    /\ {minted[i].thread : i \in 1..3} = Threads
    /\ {minted[i].op : i \in 1..3} = {"trace_event", "trace_start", "new_id"}
    /\ minted[2].op = "new_id"
    /\ \E i \in 1..NumAppended : appended[i].op = "trace_stop"
    /\ \A t \in Threads : threads[t].pc = "idle"

====
